---- MODULE Spec2Model ----
(***************************************************************************)
(* Resumable batch-evaluation runner of the function-calling leaderboard:  *)
(* openfunctions_evaluation.py (argument standalone, test case selection,     *)
(* retry loop, per-case and batch-native result generation) together with  *)
(* BaseHandler.write of model_handler/handler.py (the append-only result   *)
(* log).                                                                   *)
(*                                                                         *)
(* Representation of strings.  Names that the code splits or joins at "_"  *)
(* (category names, test case ids, file names) are tuples of the segments  *)
(* between the underscores: "parallel_function" is <<"parallel",           *)
(* "function">> and the id "simple_0" is <<"simple", "0">>.  Model names   *)
(* are tuples of tokens in which "/" and "_" are tokens of their own.      *)
(***************************************************************************)
EXTENDS Integers, Sequences, FiniteSets, TLC

\* ------------------------------------------------------------------ bounds
MaxRuns == 2          \* invocations of the script in one behaviour
CasesPerFile == 2     \* test cases in each benchmark data file
MaxParseTokens == 2   \* tokens of one parse_test_category_argument input
MaxLiveRuns == 1      \* invocations in one behaviour of the termination check

\* --------------------------------------------------------------- helpers
Range(s) == {s[i] : i \in DOMAIN s}

Reverse(s) == [i \in 1..Len(s) |-> s[Len(s) + 1 - i]]

SeqsUpTo(S, n) == UNION {[1..k -> S] : k \in 1..n}

RECURSIVE Flatten(_)
Flatten(ss) == IF ss = <<>> THEN <<>> ELSE Head(ss) \o Flatten(Tail(ss))

\* str.rsplit("_", 1)[0]: everything before the last underscore
RsplitHead(name) == IF Len(name) <= 1 THEN name ELSE SubSeq(name, 1, Len(name) - 1)

\* str.replace("/", "_") on a model name
ReplaceSlash(name) == [i \in DOMAIN name |-> IF name[i] = "/" THEN "_" ELSE name[i]]

\* ------------------------------------------------------- program constants
RETRY_LIMIT == 3
RETRY_DELAY == 65

LeafCategories ==
    { <<"executable", "simple">>,
      <<"executable", "parallel", "function">>,
      <<"executable", "multiple", "function">>,
      <<"executable", "parallel", "multiple", "function">>,
      <<"simple">>,
      <<"relevance">>,
      <<"parallel", "function">>,
      <<"multiple", "function">>,
      <<"parallel", "multiple", "function">>,
      <<"rest">> }

\* a file name is its stem (split at "_") and its extension
FilePrefix == <<"gorilla", "openfunctions", "v1", "test">>

TEST_FILE_MAPPING == [c \in LeafCategories |-> [stem |-> FilePrefix \o c, ext |-> ".json"]]

\* eval_checker_constant.TEST_COLLECTION_MAPPING: alias -> leaf categories
TEST_COLLECTION_MAPPING ==
    ( <<"all">> :>
        << <<"executable", "simple">>,
           <<"executable", "parallel", "function">>,
           <<"executable", "multiple", "function">>,
           <<"executable", "parallel", "multiple", "function">>,
           <<"simple">>,
           <<"relevance">>,
           <<"parallel", "function">>,
           <<"multiple", "function">>,
           <<"parallel", "multiple", "function">>,
           <<"rest">> >> )
    @@ ( <<"ast">> :>
        << <<"simple">>,
           <<"relevance">>,
           <<"parallel", "function">>,
           <<"multiple", "function">>,
           <<"parallel", "multiple", "function">> >> )
    @@ ( <<"executable">> :>
        << <<"executable", "simple">>,
           <<"executable", "parallel", "function">>,
           <<"executable", "multiple", "function">>,
           <<"executable", "parallel", "multiple", "function">>,
           <<"rest">> >> )
    @@ ( <<"basic">> :> << <<"simple">>, <<"relevance">> >> )

Aliases == DOMAIN TEST_COLLECTION_MAPPING

UnknownToken == <<"bogus">>

\* args.language (default)
Language == "en"


\* -------------------------------------------------- benchmark data (./data)
IndexNames == <<"0", "1", "2", "3">>

\* the "function" field of the i-th case of category c: a mapping, a string
\* or a list (the relevance file starts with a list)
FunctionField(c, i) ==
    LET k == IF c = <<"relevance">> THEN i + 2 ELSE i IN
    IF k % 3 = 1 THEN [kind |-> "dict", items |-> <<"f">>]
    ELSE IF k % 3 = 2 THEN [kind |-> "str", items |-> <<"f">>]
    ELSE [kind |-> "list", items |-> <<"f", "g">>]

TestCase(c, i) ==
    [id |-> c \o <<IndexNames[i]>>, question |-> <<"q", IndexNames[i]>>,
     function |-> FunctionField(c, i)]

DataFiles == {TEST_FILE_MAPPING[c] : c \in LeafCategories}

\* ./data/<language>/<file>: one test case per line
BenchmarkData ==
    [f \in DataFiles |->
        LET c == CHOOSE c \in LeafCategories : TEST_FILE_MAPPING[c] = f
        IN  [i \in 1..CasesPerFile |-> TestCase(c, i)]]

\* ------------------------------------------------- models and their handlers
Models == { <<"o", "/", "m">>, <<"o", "_", "m">>, <<"g">> }

\* handler_map[model_name](...).model_style
ModelStyle(model) == IF model = <<"g">> THEN "OSSMODEL" ELSE "OpenAI"

\* ------------------------------------------------------------ result files
\* mutant: a result file name that handler.write never writes
ResultFileTypo(file_to_open) ==
    [stem |-> file_to_open.stem \o <<"results">>, ext |-> file_to_open.ext]

\* file_to_open.replace(".json", "_result.json")
ResultFileOf(file_to_open) ==
    [stem |-> file_to_open.stem \o <<"result">>, ext |-> file_to_open.ext]

\* f"gorilla_openfunctions_v1_test_{test_category}_result.json"
WriteFile(test_category) ==
    [stem |-> FilePrefix \o test_category \o <<"result">>, ext |-> ".json"]

\* f"./result/{language}/{model_name_dir}/" + file
ResultPath(language, model, file) ==
    [lang |-> language, dir |-> ReplaceSlash(model), file |-> file]

\* the lines of a file; a file that does not exist has none
Lines(files, path) == IF path \in DOMAIN files THEN files[path] ELSE <<>>

\* open(path, "a+").write(line): creates the file on first use
AppendLine(files, path, line) ==
    [p \in DOMAIN files \cup {path} |->
        IF p = path THEN Append(Lines(files, path), line) ELSE files[p]]

\* ---------------------------------------------- parse_test_category_argument
\* mutant: a list that is appended to instead of a set
ListAppend(acc, x) == Append(acc, x)

\* set.add: a Python set kept as a duplicate-free sequence
SetAdd(acc, x) == IF x \in Range(acc) THEN acc ELSE Append(acc, x)

RECURSIVE AddCollection(_, _, _)
AddCollection(names, acc_names, acc_files) ==
    IF names = <<>> THEN <<acc_names, acc_files>>
    ELSE AddCollection(Tail(names),
                       SetAdd(acc_names, Head(names)),
                       SetAdd(acc_files, TEST_FILE_MAPPING[Head(names)]))

\* mutant: a token that is no alias and no key is skipped
RECURSIVE ParseLoopSkipUnknown(_, _, _)
ParseLoopSkipUnknown(tokens, acc_names, acc_files) ==
    IF tokens = <<>> THEN [raised |-> FALSE, names |-> acc_names, files |-> acc_files]
    ELSE LET test_category == Head(tokens) IN
         IF test_category \in DOMAIN TEST_COLLECTION_MAPPING
         THEN LET r == AddCollection(TEST_COLLECTION_MAPPING[test_category], acc_names, acc_files)
              IN  ParseLoopSkipUnknown(Tail(tokens), r[1], r[2])
         ELSE IF test_category \in DOMAIN TEST_FILE_MAPPING
         THEN ParseLoopSkipUnknown(Tail(tokens),
                                   SetAdd(acc_names, test_category),
                                   SetAdd(acc_files, TEST_FILE_MAPPING[test_category]))
         ELSE ParseLoopSkipUnknown(Tail(tokens), acc_names, acc_files)

\* the loop of lines 49-56; a token that is no alias and no key of
\* TEST_FILE_MAPPING raises KeyError
RECURSIVE ParseLoop(_, _, _)
ParseLoop(tokens, acc_names, acc_files) ==
    IF tokens = <<>> THEN [raised |-> FALSE, names |-> acc_names, files |-> acc_files]
    ELSE LET test_category == Head(tokens) IN
         IF test_category \in DOMAIN TEST_COLLECTION_MAPPING
         THEN LET r == AddCollection(TEST_COLLECTION_MAPPING[test_category], acc_names, acc_files)
              IN  ParseLoop(Tail(tokens), r[1], r[2])
         ELSE IF test_category \in DOMAIN TEST_FILE_MAPPING
         THEN ParseLoop(Tail(tokens),
                        SetAdd(acc_names, test_category),
                        SetAdd(acc_files, TEST_FILE_MAPPING[test_category]))
         ELSE [raised |-> TRUE, names |-> SetAdd(acc_names, test_category), files |-> acc_files]

parse_test_category_argument(test_category_args) == ParseLoop(test_category_args, <<>>, <<>>)

\* list(a_set): the iteration order of a set is arbitrary
ListOfSet(s) == {s, Reverse(s)}

\* ---------------------------------------------------------- collect_test_cases
\* mutant: always starts from the first case
SkipNothing(cases, num_existing_result) == cases

\* mutant: skips one case too many
SliceFromOffByOne(cases, num_existing_result) ==
    IF num_existing_result + 1 >= Len(cases) THEN <<>>
    ELSE SubSeq(cases, num_existing_result + 2, Len(cases))

\* test_cases[num_existing_result:]
SliceFrom(cases, num_existing_result) ==
    IF num_existing_result >= Len(cases) THEN <<>>
    ELSE SubSeq(cases, num_existing_result + 1, Len(cases))

\* mutant: the result file is never found
NumExistingZero(files, language, model, file_to_open) == 0

\* num_existing_result: the number of lines of the result file, 0 if absent
NumExistingResult(files, language, model, file_to_open) ==
    Len(Lines(files, ResultPath(language, model, ResultFileOf(file_to_open))))

PendingOfFile(files, language, model, file_to_open) ==
    SliceFrom(BenchmarkData[file_to_open],
              NumExistingResult(files, language, model, file_to_open))

collect_test_cases(files, language, test_filename_total, model) ==
    Flatten([i \in 1..Len(test_filename_total) |->
                PendingOfFile(files, language, model, test_filename_total[i])])


\* ------------------------------------------------------ adapter outcomes
\* what handler.inference returns for a case: an opaque payload and its usage
\* metadata, both named after the case the call was made for (within one
\* invocation at most one call per case returns)
Unbound == [bound |-> FALSE, of |-> <<>>]

InferenceResult(case_id) == [bound |-> TRUE, of |-> case_id]

InferenceMetadata(case_id) ==
    [bound |-> TRUE,
     input_tokens |-> <<"in", case_id>>,
     output_tokens |-> <<"out", case_id>>,
     latency |-> <<"lat", case_id>>]

UnboundMetadata ==
    [bound |-> FALSE, input_tokens |-> <<>>, output_tokens |-> <<>>, latency |-> <<>>]

\* exceptions an adapter raises: the text of str(e) and an optional status_code
AdapterErrors ==
    { [rate_limit_text |-> TRUE,  has_status |-> FALSE, status_code |-> 0],
      [rate_limit_text |-> FALSE, has_status |-> TRUE,  status_code |-> 429],
      [rate_limit_text |-> FALSE, has_status |-> TRUE,  status_code |-> 503],
      [rate_limit_text |-> FALSE, has_status |-> TRUE,  status_code |-> 500],
      [rate_limit_text |-> FALSE, has_status |-> TRUE,  status_code |-> 401],
      [rate_limit_text |-> FALSE, has_status |-> FALSE, status_code |-> 0] }

\* mutant: every exception is retried
IsTransientAlways(e) == TRUE

\* the condition of lines 128-135
IsTransient(e) ==
    e.rate_limit_text
    \/ (e.has_status /\ (e.status_code = 429 \/ e.status_code = 503 \/ e.status_code = 500))

NoError == [type |-> "none", at |-> <<>>, dir |-> <<>>]

\* mutant: only a mapping is wrapped
NormalizeDictOnly(functions) ==
    IF functions.kind = "dict"
    THEN [kind |-> "list", items |-> <<functions>>]
    ELSE functions

\* lines 114-115
Normalize(functions) ==
    IF functions.kind = "dict" \/ functions.kind = "str"
    THEN [kind |-> "list", items |-> <<functions>>]
    ELSE functions


\* ------------------------------------------------------------------ state
VARIABLES
    fs,                  \* ./result: path -> lines of the result file
    pc,                  \* position of the script
    run,                 \* number of invocations started so far
    args_model,          \* args.model
    test_filename_total, \* main, line 160
    model_idx,           \* position of the loop of line 164
    model_name,          \* the model of the current iteration
    test_cases_total,    \* the pending cases of the current model
    tc_idx,              \* position of the loop of line 107 (of the zip of line 102)
    functions,           \* generate_results local
    retry_count,         \* generate_results local
    result,              \* generate_results local; Unbound before its first assignment
    metadata,            \* generate_results local
    batch_result,        \* the list returned by the batch-native inference
    error,               \* the exception that ended the invocation, if any
    \* history of the current invocation
    invoked,             \* <<model, case id>> of the adapter calls made
    attempts,            \* adapter calls made for the current case
    sleeps,              \* backoff sleeps made for the current case
    exhausted,           \* <<model, case id>> whose retry loop ran out of attempts
    appended,            \* number of records appended
    repeat,              \* same arguments as the previous invocation, which completed
    last_completed,      \* the arguments of the previous invocation if it completed
    inflight,            \* the case a terminated invocation left unrecorded
    resumed,             \* the first call made later for that model and category
    raised,              \* the exception the latest adapter call raised, if any
    recorded0,           \* <<directory, case id>> recorded when the invocation started
    unknown_requested,   \* args.test_category of the latest invocation held an unknown token
    \* a call of parse_test_category_argument on its own
    parse_in,            \* its argument
    parse_out,           \* what it returned
    \* one file of collect_test_cases on its own, over a given result directory
    count_in,            \* model_name and the leaf category of file_to_open
    count_out,           \* num_existing_result and the cases selected
    \* two invocations running at the same time over one ./result directory
    concurrent           \* per invocation: its model, files, position and pending cases

iteration == <<model_idx, model_name, test_cases_total>>

locals == <<functions, retry_count, result, metadata, batch_result>>

history == <<invoked, attempts, sleeps, exhausted, appended, resumed>>

vars == <<fs, pc, run, args_model, test_filename_total, model_idx,
          model_name, test_cases_total, tc_idx, functions, retry_count, result,
          metadata, batch_result, error, invoked, attempts, sleeps, exhausted,
          appended, repeat, last_completed, inflight, resumed, raised, recorded0,
          unknown_requested, parse_in, parse_out, count_in, count_out, concurrent>>

\* inputs and outputs of the functions that are also run on their own
standalone == <<parse_in, parse_out, count_in, count_out, concurrent>>

NoArgs == [model |-> <<>>, files |-> {}]

NoCase == [set |-> FALSE, dir |-> <<>>, id |-> <<>>]

NoResume == [set |-> FALSE, expected |-> <<>>, got |-> <<>>]

NoExc == [rate_limit_text |-> FALSE, has_status |-> FALSE, status_code |-> -1]

NoOutput == [done |-> FALSE, raised |-> FALSE, names |-> <<>>, files |-> <<>>]

NoCountInput == [model |-> <<>>, category |-> <<>>]

NoCount == [done |-> FALSE, num_existing_result |-> 0, selected |-> <<>>]

NoInvocations == << >>

NoFunctions == [kind |-> "list", items |-> <<>>]

\* a fresh frame of generate_results
FreshLocals ==
    /\ tc_idx' = 0
    /\ functions' = NoFunctions
    /\ retry_count' = 0
    /\ result' = Unbound
    /\ metadata' = UnboundMetadata
    /\ batch_result' = <<>>

\* the process ends (normally or with the exception err); its memory is gone.
\* A failed write is reported with the directory it was for.
Exit(err) ==
    /\ pc' = "exit"
    /\ error' = [type |-> err.type, at |-> err.at,
                 dir |-> IF err.type = "OSError" THEN ReplaceSlash(model_name) ELSE <<>>]
    /\ last_completed' = IF err.type = "none"
                          THEN [model |-> args_model, files |-> Range(test_filename_total)]
                          ELSE NoArgs
    /\ args_model' = <<>>
    /\ invoked' = {}
    /\ attempts' = 0
    /\ sleeps' = 0
    /\ exhausted' = {}
    /\ appended' = 0
    /\ resumed' = NoResume
    /\ recorded0' = {}
    /\ test_filename_total' = <<>>
    /\ model_idx' = 0
    /\ model_name' = <<>>
    /\ test_cases_total' = <<>>
    /\ FreshLocals

\* no invocation has been started
InitProcess ==
    /\ pc = "idle"
    /\ run = 0
    /\ args_model = <<>>
    /\ test_filename_total = <<>>
    /\ model_idx = 0
    /\ model_name = <<>>
    /\ test_cases_total = <<>>
    /\ tc_idx = 0
    /\ functions = NoFunctions
    /\ retry_count = 0
    /\ result = Unbound
    /\ metadata = UnboundMetadata
    /\ batch_result = <<>>
    /\ error = NoError
    /\ invoked = {}
    /\ attempts = 0
    /\ sleeps = 0
    /\ exhausted = {}
    /\ appended = 0
    /\ repeat = FALSE
    /\ last_completed = NoArgs
    /\ inflight = NoCase
    /\ resumed = NoResume
    /\ raised = NoExc
    /\ recorded0 = {}
    /\ unknown_requested = FALSE

\* an empty ./result directory
InitRunner ==
    /\ fs = << >>
    /\ InitProcess

Init ==
    /\ InitRunner
    /\ parse_in = <<>>
    /\ parse_out = NoOutput
    /\ count_in = NoCountInput
    /\ count_out = NoCount
    /\ concurrent = NoInvocations

\* ------------------------------------------------------ BaseHandler.write
\* mutant: the record is written twice
HandlerWriteTwice(files, model, entry, language) ==
    LET path == ResultPath(language, model, WriteFile(RsplitHead(entry.id)))
    IN  AppendLine(AppendLine(files, path, entry), path, entry)

\* mutant: a write that raises has appended its record
FailedWriteAppends(files, model, entry, language) ==
    AppendLine(files, ResultPath(language, model, WriteFile(RsplitHead(entry.id))), entry)

\* handler.write raises (os.makedirs, open, json.dumps or f.write fails):
\* no line is added
FailedWrite(files, model, entry, language) == files

\* handler.write(entry, language) for a single dict
HandlerWrite(files, model, entry, language) ==
    LET test_category == RsplitHead(entry.id)
        file_to_write == ResultPath(language, model, WriteFile(test_category))
    IN  AppendLine(files, file_to_write, entry)

\* lines 142-148
ResultToWrite(test_case, res, meta) ==
    [id |-> test_case.id,
     result |-> res,
     input_token_count |-> meta.input_tokens,
     output_token_count |-> meta.output_tokens,
     latency |-> meta.latency]

\* line 103
BatchResultToWrite(test_case, res) == [id |-> test_case.id, result |-> res]

\* ------------------------------------------------------------ invocations
ModelArgs == { << <<"o", "/", "m">> >>, << <<"g">> >>, << <<"o", "_", "m">>, <<"g">> >> }

\* --test-category: a leaf, an alias, a leaf repeated, an alias that overlaps
\* a leaf, and lists with a token that is neither
CategoryArgs ==
    { << <<"simple">> >>,
      << <<"basic">> >>,
      << <<"simple">>, <<"simple">> >>,
      << <<"basic">>, <<"simple">> >>,
      << UnknownToken >>,
      << <<"simple">>, UnknownToken >> }

CurrentCase == test_cases_total[tc_idx]

\* a token that is neither an alias nor a leaf category
HasUnknownToken(tokens) ==
    \E i \in DOMAIN tokens :
        tokens[i] \notin DOMAIN TEST_COLLECTION_MAPPING \cup DOMAIN TEST_FILE_MAPPING

\* <<directory, case id>> of every record of the result files
Recorded(files) ==
    UNION {{<<path.dir, files[path][i].id>> : i \in 1..Len(files[path])} : path \in DOMAIN files}

InFlightCase == [set |-> TRUE, dir |-> ReplaceSlash(model_name), id |-> CurrentCase.id]

\* the first call after a terminated invocation for the same result log
Resumes ==
    /\ inflight.set
    /\ inflight.dir = ReplaceSlash(model_name)
    /\ RsplitHead(inflight.id) = RsplitHead(CurrentCase.id)

\* lines 153-162: a new invocation of the script
Main ==
    /\ pc \in {"idle", "exit"}
    /\ run < MaxRuns
    /\ \E a_model \in ModelArgs, a_category \in CategoryArgs :
         LET parsed == parse_test_category_argument(a_category) IN
         /\ unknown_requested' = HasUnknownToken(a_category)
         /\ repeat' = (~parsed.raised
                        /\ last_completed = [model |-> a_model, files |-> Range(parsed.files)])
         /\ IF parsed.raised
            THEN /\ Exit([type |-> "KeyError", at |-> <<>>])
            ELSE /\ recorded0' = Recorded(fs)
                 /\ pc' = "models"
                 /\ error' = NoError
                 /\ args_model' = a_model
                 /\ test_filename_total' \in ListOfSet(parsed.files)
                 /\ model_idx' = 0
                 /\ model_name' = <<>>
                 /\ test_cases_total' = <<>>
                 /\ FreshLocals
                 /\ last_completed' = NoArgs
                 /\ UNCHANGED history
    /\ run' = run + 1
    /\ raised' = NoExc
    /\ UNCHANGED <<fs, inflight, standalone>>

\* lines 164-170: the next model and its pending cases, or the end of main
\* (no name of Models contains "command-r-plus", so line 166 renames none)
ModelLoop ==
    /\ pc = "models"
    /\ IF model_idx < Len(args_model)
       THEN LET m == args_model[model_idx + 1] IN
            /\ model_idx' = model_idx + 1
            /\ model_name' = m
            /\ test_cases_total' = collect_test_cases(fs, Language, test_filename_total, m)
            /\ pc' = "collected"
            /\ UNCHANGED <<error, args_model, test_filename_total, tc_idx, locals,
                           last_completed, history, raised, recorded0>>
       ELSE /\ Exit(NoError)
            /\ raised' = NoExc
    /\ UNCHANGED <<fs, run, repeat, inflight, standalone, unknown_requested>>

\* lines 172-175 and 94-96: nothing to do, or enter generate_results
Dispatch ==
    /\ pc = "collected"
    /\ pc' = IF Len(test_cases_total) = 0 THEN "models"
             ELSE IF ModelStyle(model_name) = "OSSMODEL" THEN "batch_inference"
             ELSE "for"
    /\ FreshLocals
    /\ UNCHANGED <<fs, run, args_model, test_filename_total, iteration, error,
                   history, repeat, last_completed, inflight, raised, recorded0,
                   standalone, unknown_requested>>

\* mutant: retry_count is set once, before the loop over the cases
ForLoopNoReset ==
    /\ pc = "for"
    /\ IF tc_idx < Len(test_cases_total)
       THEN /\ tc_idx' = tc_idx + 1
            /\ functions' = Normalize(test_cases_total[tc_idx + 1].function)
            /\ pc' = "while"
            /\ UNCHANGED <<retry_count, result, metadata, batch_result>>
       ELSE /\ pc' = "models"
            /\ FreshLocals
    /\ attempts' = 0
    /\ sleeps' = 0
    /\ UNCHANGED <<fs, run, args_model, test_filename_total, iteration, error,
                   invoked, exhausted, appended, repeat, last_completed, inflight,
                   resumed, raised, recorded0, standalone, unknown_requested>>

\* lines 107-117: the next pending case, or the end of generate_results
ForLoop ==
    /\ pc = "for"
    /\ IF tc_idx < Len(test_cases_total)
       THEN /\ tc_idx' = tc_idx + 1
            /\ functions' = Normalize(test_cases_total[tc_idx + 1].function)
            /\ retry_count' = 0
            /\ pc' = "while"
            /\ UNCHANGED <<result, metadata, batch_result>>
       ELSE /\ pc' = "models"
            /\ FreshLocals
    /\ attempts' = 0
    /\ sleeps' = 0
    /\ UNCHANGED <<fs, run, args_model, test_filename_total, iteration, error,
                   invoked, exhausted, appended, repeat, last_completed, inflight,
                   resumed, raised, recorded0, standalone, unknown_requested>>

\* lines 119-124: the adapter returns
InferenceSuccess ==
    /\ pc = "while"
    /\ retry_count < RETRY_LIMIT
    /\ result' = InferenceResult(CurrentCase.id)
    /\ metadata' = InferenceMetadata(CurrentCase.id)
    /\ pc' = "write"
    /\ invoked' = invoked \cup {<<model_name, CurrentCase.id>>}
    /\ attempts' = attempts + 1
    /\ IF Resumes
       THEN /\ resumed' = [set |-> TRUE, expected |-> inflight.id, got |-> CurrentCase.id]
            /\ inflight' = NoCase
       ELSE UNCHANGED <<inflight, resumed>>
    /\ UNCHANGED <<fs, run, args_model, test_filename_total, iteration, tc_idx,
                   functions, retry_count, batch_result, error, sleeps, exhausted,
                   appended, repeat, last_completed, raised, recorded0, standalone, unknown_requested>>

\* lines 125-141: the adapter raises
InferenceRaises ==
    /\ pc = "while"
    /\ retry_count < RETRY_LIMIT
    /\ \E e \in AdapterErrors :
         /\ raised' = e
         /\ IF IsTransient(e)
            THEN /\ pc' = "sleep"
                 /\ invoked' = invoked \cup {<<model_name, CurrentCase.id>>}
                 /\ attempts' = attempts + 1
                 /\ IF Resumes
                    THEN /\ resumed' = [set |-> TRUE, expected |-> inflight.id,
                                        got |-> CurrentCase.id]
                         /\ inflight' = NoCase
                    ELSE UNCHANGED <<inflight, resumed>>
                 /\ UNCHANGED <<error, args_model, test_filename_total, iteration,
                                tc_idx, locals, sleeps, exhausted, appended,
                                last_completed, recorded0>>
            ELSE /\ Exit([type |-> "adapter", at |-> CurrentCase.id])
                 /\ inflight' = InFlightCase
    /\ UNCHANGED <<fs, run, repeat, standalone, unknown_requested>>

\* mutant: the first transient failure of a case is not counted
SleepFirstRetryFree ==
    /\ pc = "sleep"
    /\ retry_count' = IF sleeps = 0 THEN retry_count ELSE retry_count + 1
    /\ sleeps' = sleeps + 1
    /\ pc' = "while"
    /\ raised' = NoExc
    /\ UNCHANGED <<fs, run, args_model, test_filename_total, iteration, tc_idx,
                   functions, result, metadata, batch_result, error, invoked,
                   attempts, exhausted, appended, repeat, last_completed, inflight,
                   resumed, recorded0, standalone, unknown_requested>>

\* lines 136-138: time.sleep(RETRY_DELAY); retry_count += 1
Sleep ==
    /\ pc = "sleep"
    /\ retry_count' = retry_count + 1
    /\ sleeps' = sleeps + 1
    /\ pc' = "while"
    /\ raised' = NoExc
    /\ UNCHANGED <<fs, run, args_model, test_filename_total, iteration, tc_idx,
                   functions, result, metadata, batch_result, error, invoked,
                   attempts, exhausted, appended, repeat, last_completed, inflight,
                   resumed, recorded0, standalone, unknown_requested>>

\* line 119: the loop condition fails after RETRY_LIMIT transient failures
WhileExit ==
    /\ pc = "while"
    /\ retry_count >= RETRY_LIMIT
    /\ exhausted' = exhausted \cup {<<model_name, CurrentCase.id>>}
    /\ pc' = "write"
    /\ UNCHANGED <<fs, run, args_model, test_filename_total, iteration, tc_idx,
                   locals, error, invoked, attempts, sleeps, appended, repeat,
                   last_completed, inflight, resumed, raised, recorded0, standalone, unknown_requested>>

\* lines 142-149: reading an unassigned result raises UnboundLocalError;
\* handler.write appends the record or raises OSError
Write ==
    /\ pc = "write"
    /\ IF ~result.bound
       THEN /\ Exit([type |-> "UnboundLocalError", at |-> CurrentCase.id])
            /\ inflight' = InFlightCase
            /\ fs' = fs
       ELSE \/ /\ fs' = HandlerWrite(fs, model_name,
                                     ResultToWrite(CurrentCase, result, metadata), Language)
               /\ appended' = appended + 1
               /\ pc' = "for"
               /\ UNCHANGED <<error, args_model, test_filename_total, iteration,
                              tc_idx, locals, invoked, attempts, sleeps, exhausted,
                              last_completed, inflight, resumed, recorded0>>
            \/ /\ Exit([type |-> "OSError", at |-> CurrentCase.id])
               /\ inflight' = InFlightCase
               /\ fs' = FailedWrite(fs, model_name,
                                    ResultToWrite(CurrentCase, result, metadata), Language)
    /\ UNCHANGED <<run, repeat, raised, standalone, unknown_requested>>

\* the list a batch-native adapter returns: one output per question, in order
BatchOutputs(cases) == [i \in 1..Len(cases) |-> InferenceResult(cases[i].id)]

\* mutant: the last pair is dropped
ZipDropLast(cases, outputs) ==
    [i \in 1..(IF Len(cases) <= Len(outputs) THEN Len(cases) - 1 ELSE Len(outputs) - 1) |->
        <<cases[i], outputs[i]>>]

\* zip(test_cases_total, result)
Zip(cases, outputs) ==
    [i \in 1..(IF Len(cases) <= Len(outputs) THEN Len(cases) ELSE Len(outputs)) |->
        <<cases[i], outputs[i]>>]

PendingCalls == {<<model_name, test_cases_total[i].id>> : i \in 1..Len(test_cases_total)}

\* lines 96-101: the single call of a batch-native adapter returns
BatchInferenceSuccess ==
    /\ pc = "batch_inference"
    /\ batch_result' = BatchOutputs(test_cases_total)
    /\ invoked' = invoked \cup PendingCalls
    /\ pc' = "batch_write"
    /\ UNCHANGED <<fs, run, args_model, test_filename_total, iteration, tc_idx,
                   functions, retry_count, result, metadata, error, attempts, sleeps,
                   exhausted, appended, repeat, last_completed, inflight, resumed,
                   raised, recorded0, standalone, unknown_requested>>

\* mutant: the first record is written before the call raises
BatchInferenceRaisesAfterWrite ==
    /\ pc = "batch_inference"
    /\ fs' = HandlerWrite(fs, model_name,
                          BatchResultToWrite(test_cases_total[1],
                                             InferenceResult(test_cases_total[1].id)),
                          Language)
    /\ Exit([type |-> "adapter", at |-> <<>>])
    /\ UNCHANGED <<run, repeat, inflight, raised, standalone, unknown_requested>>

\* lines 96-101: the single call of a batch-native adapter raises
BatchInferenceRaises ==
    /\ pc = "batch_inference"
    /\ Exit([type |-> "adapter", at |-> <<>>])
    /\ UNCHANGED <<fs, run, repeat, inflight, raised, standalone, unknown_requested>>

\* lines 102-104: one iteration of the loop over the zipped pairs
BatchWrite ==
    /\ pc = "batch_write"
    /\ LET pairs == Zip(test_cases_total, batch_result) IN
       IF tc_idx < Len(pairs)
       THEN \/ /\ fs' = HandlerWrite(fs, model_name,
                                     BatchResultToWrite(pairs[tc_idx + 1][1],
                                                        pairs[tc_idx + 1][2]), Language)
               /\ appended' = appended + 1
               /\ tc_idx' = tc_idx + 1
               /\ UNCHANGED <<pc, error, args_model, test_filename_total, iteration,
                              functions, retry_count, result, metadata, batch_result,
                              invoked, attempts, sleeps, exhausted, last_completed,
                              resumed, recorded0>>
            \/ /\ Exit([type |-> "OSError", at |-> pairs[tc_idx + 1][1].id])
               /\ fs' = FailedWrite(fs, model_name,
                                    BatchResultToWrite(pairs[tc_idx + 1][1],
                                                       pairs[tc_idx + 1][2]), Language)
       ELSE /\ pc' = "models"
            /\ FreshLocals
            /\ UNCHANGED <<fs, error, args_model, test_filename_total, iteration,
                           history, last_completed, recorded0>>
    /\ UNCHANGED <<run, repeat, inflight, raised, standalone, unknown_requested>>

\* the process is terminated between two steps
Kill ==
    /\ pc \notin {"idle", "exit"}
    /\ inflight' = IF pc \in {"while", "sleep", "write"} THEN InFlightCase ELSE inflight
    /\ Exit([type |-> "killed", at |-> <<>>])
    /\ raised' = NoExc
    /\ UNCHANGED <<fs, run, repeat, standalone, unknown_requested>>

Next ==
    \/ Main
    \/ ModelLoop
    \/ Dispatch
    \/ ForLoop
    \/ InferenceSuccess
    \/ InferenceRaises
    \/ Sleep
    \/ WhileExit
    \/ Write
    \/ BatchInferenceSuccess
    \/ BatchInferenceRaises
    \/ BatchWrite
    \/ Kill

Spec == Init /\ [][Next]_vars

\* the steps a started process takes by itself: a running interpreter goes
\* on, an adapter call returns or raises, a sleep ends
Progress ==
    \/ ModelLoop
    \/ Dispatch
    \/ ForLoop
    \/ InferenceSuccess
    \/ InferenceRaises
    \/ Sleep
    \/ WhileExit
    \/ Write
    \/ BatchInferenceSuccess
    \/ BatchInferenceRaises
    \/ BatchWrite

\* a new invocation, in behaviours of at most MaxLiveRuns invocations
MainLive ==
    /\ run < MaxLiveRuns
    /\ Main

NextLive ==
    \/ MainLive
    \/ Progress
    \/ Kill

SpecLive == Init /\ [][NextLive]_vars /\ WF_vars(Progress)


\* --------------------------------- parse_test_category_argument on its own
ParseTokens == LeafCategories \cup Aliases \cup {UnknownToken}

InitParse ==
    /\ InitRunner
    /\ parse_in \in SeqsUpTo(ParseTokens, MaxParseTokens)
    /\ parse_out = NoOutput
    /\ count_in = NoCountInput
    /\ count_out = NoCount
    /\ concurrent = NoInvocations

\* line 160 with line 58: the two lists the function returns
ParseCall ==
    /\ ~parse_out.done
    /\ LET parsed == parse_test_category_argument(parse_in) IN
       IF parsed.raised
       THEN parse_out' = [done |-> TRUE, raised |-> TRUE, names |-> <<>>, files |-> <<>>]
       ELSE \E names \in ListOfSet(parsed.names), files \in ListOfSet(parsed.files) :
              parse_out' = [done |-> TRUE, raised |-> FALSE, names |-> names, files |-> files]
    /\ UNCHANGED <<fs, pc, run, args_model, test_filename_total, iteration, tc_idx,
                   locals, error, history, repeat, last_completed, inflight, raised,
                   recorded0, parse_in, unknown_requested, count_in, count_out, concurrent>>

NextParse == ParseCall

SpecParse == InitParse /\ [][NextParse]_vars

\* ----------------------- one file of collect_test_cases on its own
\* the categories whose records a given result file may hold
CountCategories == { <<"simple">>, <<"relevance">> }

\* records as generate_results writes them
LogRecords ==
    { ResultToWrite(TestCase(c, i),
                    InferenceResult(TestCase(c, i).id),
                    InferenceMetadata(TestCase(c, i).id)) :
        c \in CountCategories, i \in 1..CasesPerFile }

\* the result file that lines 70-81 look for
CountPath ==
    ResultPath(Language, count_in.model, ResultFileOf(TEST_FILE_MAPPING[count_in.category]))

\* ./result holds no file, or the result file of the model and the category
\* with any lines
InitCount ==
    /\ InitProcess
    /\ count_in \in [model : Models, category : CountCategories]
    /\ \E lines \in {<<>>} \cup SeqsUpTo(LogRecords, CasesPerFile + 1) :
          fs \in { << >>, (CountPath :> lines) }
    /\ count_out = NoCount
    /\ parse_in = <<>>
    /\ parse_out = NoOutput
    /\ concurrent = NoInvocations

\* lines 64-85 for one file_to_open
CountCall ==
    /\ ~count_out.done
    /\ LET file_to_open == TEST_FILE_MAPPING[count_in.category] IN
       count_out' =
          [done |-> TRUE,
           num_existing_result |-> NumExistingResult(fs, Language, count_in.model, file_to_open),
           selected |-> PendingOfFile(fs, Language, count_in.model, file_to_open)]
    /\ UNCHANGED <<fs, pc, run, args_model, test_filename_total, iteration, tc_idx,
                   locals, error, history, repeat, last_completed, inflight, raised,
                   recorded0, unknown_requested, parse_in, parse_out, count_in, concurrent>>

NextCount == CountCall

SpecCount == InitCount /\ [][NextCount]_vars

\* ------------------- two invocations for different models at the same time
\* --test-category of the two invocations, after parsing
ConcurrentFiles ==
    { << TEST_FILE_MAPPING[<<"simple">>] >>,
      << TEST_FILE_MAPPING[<<"simple">>], TEST_FILE_MAPPING[<<"relevance">>] >>,
      << TEST_FILE_MAPPING[<<"relevance">>], TEST_FILE_MAPPING[<<"simple">>] >> }

\* the record generate_results writes for a case whose inference returned
RecordOf(model, test_case) ==
    IF ModelStyle(model) = "OSSMODEL"
    THEN BatchResultToWrite(test_case, InferenceResult(test_case.id))
    ELSE ResultToWrite(test_case, InferenceResult(test_case.id),
                       InferenceMetadata(test_case.id))

\* two processes, each started with one model, over an empty ./result
InitConcurrent ==
    /\ InitRunner
    /\ \E m1, m2 \in Models, files \in ConcurrentFiles :
          /\ m1 # m2
          /\ concurrent =
                [p \in 1..2 |->
                    [model |-> IF p = 1 THEN m1 ELSE m2, files |-> files,
                     pc |-> "main", test_cases_total |-> <<>>, tc_idx |-> 0]]
    /\ parse_in = <<>>
    /\ parse_out = NoOutput
    /\ count_in = NoCountInput
    /\ count_out = NoCount

ConcurrentFrame ==
    UNCHANGED <<pc, run, args_model, test_filename_total, iteration, tc_idx, locals,
                error, history, repeat, last_completed, inflight, raised, recorded0,
                unknown_requested, parse_in, parse_out, count_in, count_out>>

\* line 170 in process p
ConcurrentCollect(p) ==
    /\ concurrent[p].pc = "main"
    /\ concurrent' =
          [concurrent EXCEPT
             ![p].test_cases_total =
                 collect_test_cases(fs, Language, concurrent[p].files, concurrent[p].model),
             ![p].pc = "generate"]
    /\ fs' = fs
    /\ ConcurrentFrame

\* lines 107-149 (102-104) in process p: the next case is inferred and recorded
ConcurrentWrite(p) ==
    /\ concurrent[p].pc = "generate"
    /\ concurrent[p].tc_idx < Len(concurrent[p].test_cases_total)
    /\ LET test_case == concurrent[p].test_cases_total[concurrent[p].tc_idx + 1] IN
       fs' = HandlerWrite(fs, concurrent[p].model,
                          RecordOf(concurrent[p].model, test_case), Language)
    /\ concurrent' = [concurrent EXCEPT ![p].tc_idx = concurrent[p].tc_idx + 1]
    /\ ConcurrentFrame

\* process p ends: every case is recorded, or an exception or a signal ends it
ConcurrentExit(p) ==
    /\ concurrent[p].pc = "generate"
    /\ concurrent' = [concurrent EXCEPT ![p].pc = "exit"]
    /\ fs' = fs
    /\ ConcurrentFrame

NextConcurrent ==
    \E p \in 1..2 :
        \/ ConcurrentCollect(p)
        \/ ConcurrentWrite(p)
        \/ ConcurrentExit(p)

SpecConcurrent == InitConcurrent /\ [][NextConcurrent]_vars

\* ------------------------------------------------------------- properties
Dirs == {ReplaceSlash(m) : m \in Models}

CategoryOf(id) == SubSeq(id, 1, Len(id) - 1)

\* the ids of the category's cases, in the order of its data file
CaseIds(c) == [i \in 1..CasesPerFile |-> (c \o <<IndexNames[i]>>)]

\* the result log of a (model directory, category) pair
LogPath(dir, c) ==
    [lang |-> Language, dir |-> dir,
     file |-> [stem |-> FilePrefix \o c \o <<"result">>, ext |-> ".json"]]

Log(dir, c) == IF LogPath(dir, c) \in DOMAIN fs THEN fs[LogPath(dir, c)] ELSE <<>>

LogIds(dir, c) == [i \in 1..Len(Log(dir, c)) |-> Log(dir, c)[i].id]

NoDuplicates(s) == \A i, j \in 1..Len(s) : i # j => s[i] # s[j]

PositionOf(id) == CHOOSE i \in 1..Len(test_cases_total) : test_cases_total[i].id = id

IsExhausted == tc_idx > 0 /\ <<model_name, CurrentCase.id>> \in exhausted

\* C1. Prefix invariant: whatever runs completed, aborted or were killed, the
\* ids recorded in the result log of every (model, category) pair are exactly
\* the first k ids of the category's case list for some k >= 0.  Every result
\* file is the log of one such pair (a pair without a file has k = 0).
C1_PrefixInvariant ==
    \A path \in DOMAIN fs :
        /\ path.dir \in Dirs
        /\ \E c \in LeafCategories :
              /\ path = LogPath(path.dir, c)
              /\ \E k \in 0..CasesPerFile :
                    Range(LogIds(path.dir, c)) = {CaseIds(c)[i] : i \in 1..k}

C1_Witness ==
    /\ run >= 2
    /\ pc = "exit"
    /\ error.type = "killed"
    /\ Len(Log(<<"o", "_", "m">>, <<"simple">>)) = 1
    /\ Len(Log(<<"o", "_", "m">>, <<"relevance">>)) = 2

\* C2. Retry exhaustion: a case whose RETRY_LIMIT attempts all ended in a
\* transient failure has no record in its result log.
C2_RetryExhaustionWritesNothing ==
    \A x \in exhausted : <<ReplaceSlash(x[1]), x[2]>> \notin Recorded(fs)

\* C3. Abort, never skip: once the inference of a case has ended in failure,
\* the adapter is invoked for no later case of the pending list.
C3_AbortNeverSkip ==
    \A x \in exhausted, y \in invoked :
        (x[1] = model_name /\ y[1] = model_name /\ tc_idx > 0)
            => PositionOf(y[2]) <= PositionOf(x[2])

\* C4. Record integrity: every record carries the result and the metadata
\* that the adapter returned for the case the record is about.
C4_RecordIntegrity ==
    \A path \in DOMAIN fs : \A i \in 1..Len(fs[path]) :
        LET rec == fs[path][i] IN
        /\ rec.result = InferenceResult(rec.id)
        /\ "latency" \in DOMAIN rec =>
              /\ rec.input_token_count = InferenceMetadata(rec.id).input_tokens
              /\ rec.output_token_count = InferenceMetadata(rec.id).output_tokens
              /\ rec.latency = InferenceMetadata(rec.id).latency

\* C5. Retry success bound: when the adapter succeeds for a case after N < R
\* transient failures, N backoff sleeps and N + 1 adapter calls were made,
\* the result held is that call's, and once the write has returned the log
\* holds exactly one record of the case, carrying that result.
C5_RetrySuccessBound ==
    /\ (pc = "write" /\ ~IsExhausted) =>
          /\ attempts <= RETRY_LIMIT
          /\ sleeps = attempts - 1
          /\ retry_count = sleeps
          /\ result = InferenceResult(CurrentCase.id)
          /\ metadata = InferenceMetadata(CurrentCase.id)
          /\ CurrentCase.id \notin Range(LogIds(ReplaceSlash(model_name), CategoryOf(CurrentCase.id)))
    /\ (pc = "for" /\ tc_idx > 0 /\ ~IsExhausted) =>
          LET log == Log(ReplaceSlash(model_name), CategoryOf(CurrentCase.id))
              mine == {i \in 1..Len(log) : log[i].id = CurrentCase.id}
          IN  /\ attempts <= RETRY_LIMIT
              /\ sleeps = attempts - 1
              /\ Cardinality(mine) = 1
              /\ \A i \in mine : log[i] = ResultToWrite(CurrentCase,
                                                        InferenceResult(CurrentCase.id),
                                                        InferenceMetadata(CurrentCase.id))

C5_Witness ==
    /\ pc = "for"
    /\ tc_idx = 2
    /\ ~IsExhausted
    /\ sleeps = 2
    /\ attempts = 3
    /\ CurrentCase.id \in Range(LogIds(ReplaceSlash(model_name), CategoryOf(CurrentCase.id)))

\* an exception with no rate-limit text and no status 429, 500 or 503
FatalClass(e) ==
    /\ e # NoExc
    /\ ~e.rate_limit_text
    /\ ~(e.has_status /\ e.status_code \in {429, 500, 503})

\* C6. Fatal failure: when the adapter raises a non-transient failure on case
\* k, the invocation ends at once with that failure, without a sleep or a
\* further attempt, and the log of k's category holds exactly the records of
\* the cases before k.
C6_FatalFailure ==
    FatalClass(raised) =>
        /\ pc = "exit"
        /\ error.type = "adapter"
        /\ inflight.set
        /\ inflight.id = error.at
        /\ \E k \in 1..CasesPerFile :
              /\ CaseIds(CategoryOf(error.at))[k] = error.at
              /\ LogIds(inflight.dir, CategoryOf(error.at))
                    = SubSeq(CaseIds(CategoryOf(error.at)), 1, k - 1)

C6_Witness ==
    /\ FatalClass(raised)
    /\ raised.status_code = 401
    /\ error.at = <<"simple", "1">>
    /\ LogIds(inflight.dir, <<"simple">>) = << <<"simple", "0">> >>

\* the pending cases of category c, in the order collect_test_cases returned them
PendingOf(c) ==
    LET Test(tc) == CategoryOf(tc.id) = c IN SelectSeq(test_cases_total, Test)

\* C7. Resume selection: for every requested leaf category the selector
\* returns the cases after the first n, in file order, where n is the number
\* of records of the (model, category) log, and nothing for other categories;
\* the adapter is never invoked for a case recorded when the run started.
C7_ResumeSelection ==
    /\ pc = "collected" =>
          \A c \in LeafCategories :
             LET n == Len(Log(ReplaceSlash(model_name), c))
                 ids == [i \in 1..Len(PendingOf(c)) |-> PendingOf(c)[i].id]
             IN  ids = IF TEST_FILE_MAPPING[c] \in Range(test_filename_total)
                       THEN SubSeq(CaseIds(c), n + 1, CasesPerFile)
                       ELSE <<>>
    /\ \A y \in invoked : <<ReplaceSlash(y[1]), y[2]>> \notin recorded0

C7_Witness ==
    /\ pc = "collected"
    /\ Len(Log(ReplaceSlash(model_name), <<"simple">>)) = 1
    /\ Len(test_cases_total) >= 1
    /\ test_cases_total[1].id = <<"simple", "1">>

\* C8. At-most-once recording: no result log holds two records with the same
\* id; the case in flight when a run was terminated has no record, and it is
\* the first case of its log that a later run attempts.
C8_AtMostOnceRecording ==
    /\ \A path \in DOMAIN fs :
          NoDuplicates([i \in 1..Len(fs[path]) |-> fs[path][i].id])
    /\ inflight.set => <<inflight.dir, inflight.id>> \notin Recorded(fs)
    /\ resumed.set => resumed.got = resumed.expected

C8_Witness ==
    /\ resumed.set
    /\ resumed.got = <<"simple", "1">>
    /\ pc = "for"
    /\ Len(Log(ReplaceSlash(model_name), <<"simple">>)) = 2

\* C9. Idempotent resume: an invocation with the models and categories of
\* the invocation before it, which completed, invokes no adapter and appends
\* no record.
C9_IdempotentResume ==
    repeat => (invoked = {} /\ appended = 0)

C9_Witness ==
    /\ repeat
    /\ pc = "exit"
    /\ error.type = "none"
    /\ Len(Log(<<"o", "_", "m">>, <<"simple">>)) = CasesPerFile
    /\ Len(Log(<<"g">>, <<"relevance">>)) = CasesPerFile

\* the leaf categories a list of tokens stands for
ExpectedLeaves(tokens) ==
    UNION { IF t \in Aliases THEN Range(TEST_COLLECTION_MAPPING[t]) ELSE {t} :
            t \in Range(tokens) }

\* C10. Alias expansion is a set union: for tokens that are aliases or leaf
\* categories, the returned lists hold every leaf category the tokens stand
\* for, and its data file, exactly once.
C10_AliasExpansionIsSetUnion ==
    (parse_out.done /\ ~parse_out.raised) =>
        /\ NoDuplicates(parse_out.names)
        /\ NoDuplicates(parse_out.files)
        /\ Range(parse_out.names) = ExpectedLeaves(parse_in)
        /\ Range(parse_out.files) = {TEST_FILE_MAPPING[c] : c \in ExpectedLeaves(parse_in)}
        /\ Len(parse_out.files) = Cardinality(ExpectedLeaves(parse_in))

C10_Witness ==
    /\ parse_out.done
    /\ ~parse_out.raised
    /\ parse_in = << <<"ast">>, <<"all">> >>
    /\ Len(parse_out.names) = 10

\* C11. Unknown category fails fast: an invocation whose category tokens hold
\* a token that is neither an alias nor a leaf category ends with KeyError in
\* the step that parses them, whatever the other tokens are; it makes no
\* adapter call and leaves every result log as it was.
C11_UnknownCategoryFailsFast ==
    /\ [](unknown_requested =>
            (pc = "exit" /\ error.type = "KeyError" /\ invoked = {} /\ appended = 0))
    /\ [][unknown_requested' => fs' = fs]_vars

C11_Witness ==
    /\ unknown_requested
    /\ run = 2
    /\ pc = "exit"
    /\ error.type = "KeyError"
    /\ Len(Log(<<"o", "_", "m">>, <<"simple">>)) = 1

\* C12. Normalization: in per-case mode the adapter is called with a
\* one-element list holding the function field when the field is a single
\* mapping or a single string, and with the field itself when it is a list.
C12_Normalization ==
    (pc \in {"sleep", "write"} /\ attempts > 0) =>
        LET field == CurrentCase.function IN
        IF field.kind \in {"dict", "str"}
        THEN /\ functions.kind = "list"
             /\ Len(functions.items) = 1
             /\ functions.items[1] = field
        ELSE /\ field.kind = "list"
             /\ functions = field

C12_Witness ==
    /\ pc = "write"
    /\ attempts > 0
    /\ tc_idx = 3
    /\ test_cases_total[1].function.kind = "list"
    /\ test_cases_total[2].function.kind = "dict"
    /\ CurrentCase.function.kind = "str"
    /\ functions = [kind |-> "list", items |-> <<CurrentCase.function>>]
    /\ Len(Log(ReplaceSlash(model_name), <<"relevance">>)) = 2

\* C13. countCompleted counts only matching records: the number of completed
\* cases the selector uses for (model, category) is the number of records of
\* the log whose id prefix is the category, not the number of its lines.
C13_CountsOnlyMatchingRecords ==
    count_out.done =>
        LET log == Lines(fs, CountPath)
            matching == {i \in 1..Len(log) : RsplitHead(log[i].id) = count_in.category}
        IN  count_out.num_existing_result = Cardinality(matching)

\* the pending case at position i has its batch-native record in its log
BatchRecorded(i) ==
    LET tc == test_cases_total[i]
        log == Log(ReplaceSlash(model_name), CategoryOf(tc.id))
    IN  \E j \in 1..Len(log) : log[j] = BatchResultToWrite(tc, batch_result[i])

C15_StorageFailureIsFatal ==
    /\ [](error.type = "OSError" =>
            (pc = "exit" /\ <<error.dir, error.at>> \notin Recorded(fs)))
    /\ [][error'.type = "OSError" =>
            /\ pc \in {"write", "batch_write"}
            /\ pc' = "exit"
            /\ fs' = fs
            /\ raised' = raised
            /\ pc = "write" =>
                  inflight' = [set |-> TRUE, dir |-> error'.dir, id |-> error'.at]]_vars
    /\ []((/\ pc = "collected"
            /\ inflight.set
            /\ inflight.dir = ReplaceSlash(model_name)
            /\ TEST_FILE_MAPPING[CategoryOf(inflight.id)] \in Range(test_filename_total))
           => \E i \in 1..Len(test_cases_total) : test_cases_total[i].id = inflight.id)

C15_Witness ==
    /\ pc = "exit"
    /\ error.type = "OSError"
    /\ error.at = <<"simple", "1">>
    /\ inflight = [set |-> TRUE, dir |-> error.dir, id |-> error.at]
    /\ LogIds(error.dir, <<"simple">>) = << <<"simple", "0">> >>
    /\ run = 2

\* the records process p appends to the log of category c when it runs alone
\* over the initial ./result, after tc_idx cases
AloneLog(p, c) ==
    LET alone == collect_test_cases(<< >>, Language, concurrent[p].files, concurrent[p].model)
        done == SubSeq(alone, 1, concurrent[p].tc_idx)
        Test(tc) == CategoryOf(tc.id) = c
        mine == SelectSeq(done, Test)
    IN  [i \in 1..Len(mine) |-> RecordOf(concurrent[p].model, mine[i])]

\* C16. Disjoint partitions per model: when two invocations for different
\* model identifiers run at the same time, in every interleaving of their
\* steps the log of each (model, category) is the log the invocation for
\* that model produces alone.
C16_DisjointPartitions ==
    concurrent # NoInvocations =>
        \A p \in 1..2, c \in LeafCategories :
            Log(ReplaceSlash(concurrent[p].model), c) = AloneLog(p, c)

IsPrefix(a, b) == Len(a) <= Len(b) /\ SubSeq(b, 1, Len(a)) = a

\* a step keeps every log and its records in place and adds at most one record
LogsOnlyGrow ==
    /\ \A path \in DOMAIN fs : path \in DOMAIN fs' /\ IsPrefix(fs[path], fs'[path])
    /\ \A p1, p2 \in DOMAIN fs' :
          (Lines(fs, p1) # fs'[p1] /\ Lines(fs, p2) # fs'[p2]) => p1 = p2
    /\ \A path \in DOMAIN fs' : Len(fs'[path]) <= Len(Lines(fs, path)) + 1

\* the record a step adds is the record of the case whose inference returned
AddedAfterSuccess ==
    fs' # fs =>
        \/ /\ pc = "write"
           /\ result = InferenceResult(CurrentCase.id)
           /\ fs' = HandlerWrite(fs, model_name,
                                 ResultToWrite(CurrentCase, result, metadata), Language)
        \/ /\ pc = "batch_write"
           /\ tc_idx < Len(test_cases_total)
           /\ batch_result[tc_idx + 1] = InferenceResult(test_cases_total[tc_idx + 1].id)
           /\ fs' = HandlerWrite(fs, model_name,
                                 BatchResultToWrite(test_cases_total[tc_idx + 1],
                                                    batch_result[tc_idx + 1]), Language)

\* C17. Append-only log: every step of the runner leaves the records of
\* every result log unchanged and in place, and adds at most one record,
\* which it adds only after the inference of the case returned.
C17_AppendOnlyLog == [][LogsOnlyGrow /\ AddedAfterSuccess]_vars

\* the frame part of C17 on its own
C17_LogsOnlyGrow == [][LogsOnlyGrow]_vars

\* C18. Bounded attempts and termination: in per-case mode the adapter is
\* called at most 3 times for a case in one run, whether the calls return,
\* fail transiently or fail fatally, and every started run ends.
C18_BoundedAttempts ==
    /\ [](attempts <= 3 /\ sleeps <= 3)
    /\ [][(InferenceSuccess \/ InferenceRaises) => attempts < 3]_vars
    /\ ((pc \notin {"idle", "exit"}) ~> (pc = "exit"))

C18_Witness ==
    /\ pc = "while"
    /\ attempts = 3
    /\ sleeps = 3
    /\ tc_idx = 2
    /\ ~ENABLED InferenceSuccess
    /\ ~ENABLED InferenceRaises

\* C19. The retry budget is per case: every case starts with retry_count 0,
\* retry_count is the number of transient failures of the current case only,
\* and the adapter can be called as long as the current case has had fewer
\* than RETRY_LIMIT calls, whatever earlier cases of the run spent.
C19_RetryBudgetPerCase ==
    /\ [](pc \in {"while", "sleep"} =>
            /\ retry_count = sleeps
            /\ attempts = IF pc = "sleep" THEN sleeps + 1 ELSE sleeps
            /\ (pc = "while" /\ attempts < RETRY_LIMIT) => ENABLED InferenceSuccess)
    /\ [][(pc = "for" /\ pc' = "while") => (retry_count' = 0 /\ attempts' = 0)]_vars

C19_Witness ==
    /\ pc = "while"
    /\ tc_idx = 3
    /\ <<model_name, test_cases_total[2].id>> \in exhausted
    /\ retry_count = 0
    /\ ENABLED InferenceSuccess

\* C20. Batch-native failure: before the single inference call of a
\* batch-native model returns, no pending case of the model has a record and
\* the adapter was not called; when the call raises, the invocation ends
\* with that exception in the same step, without a second call and with the
\* result logs as they were.
C20_BatchFailureWritesNothing ==
    /\ [](pc = "batch_inference" =>
            /\ tc_idx = 0
            /\ batch_result = <<>>
            /\ PendingCalls \cap invoked = {}
            /\ \A i \in 1..Len(test_cases_total) :
                  <<ReplaceSlash(model_name), test_cases_total[i].id>> \notin Recorded(fs))
    /\ []((error.type = "adapter" /\ error.at = <<>>) => pc = "exit")
    /\ [][(pc = "batch_inference" /\ error'.type = "adapter") =>
            (pc' = "exit" /\ fs' = fs)]_vars
    /\ [][pc = "batch_inference" => pc' \in {"batch_write", "exit"}]_vars

C20_Witness ==
    /\ pc = "exit"
    /\ error.type = "adapter"
    /\ error.at = <<>>
    /\ Len(Log(<<"o", "_", "m">>, <<"simple">>)) = CasesPerFile
    /\ Len(Log(<<"g">>, <<"simple">>)) = 0

====
